---- MODULE Spec2Model ----
(***************************************************************************)
(* Image-based PSF models of photutils.psf.image_models                     *)
(* (FittableImageModel and its subclass EPSFModel) as a state machine: one  *)
(* model object, its constructor, its property setters, its normalization   *)
(* helper, compute_interpolator and evaluate; and one call of              *)
(* photutils.psf.simulation.make_psf_model_image, from the resolution of    *)
(* its arguments through the placement of the sources to the image.         *)
(*                                                                          *)
(* Numbers.  A Python/numpy float is a pair <<n, d>> (the rational n/d in   *)
(* lowest terms, d > 0), extended by <<1, 0>> (+inf), <<-1, 0>> (-inf) and  *)
(* <<0, 0>> (nan).  Arithmetic is exact: rounding is not modelled.  np.sum  *)
(* overflows to +/-inf beyond FloatMax.  Python's None is <<>>.             *)
(***************************************************************************)
EXTENDS Integers, Sequences, FiniteSets, TLC

VARIABLES
    model,  \* the model object (a record of its attributes), or NoModel
    ctor,   \* the arguments the constructor was called with
    call,   \* the last call: its name, arguments, exception and return value
    hist,   \* how many times each bounded operation has been called
    scene   \* the make_psf_model_image call: its position and its values

vars == <<model, ctor, call, hist, scene>>

----------------------------------------------------------------------------
(* Bounds of the model.                                                     *)

\* Largest magnitude a finite float sum can hold (stands for 1.8e308).
FloatMax == 8

\* Number of assignments to normalization_correction in one behaviour.
MaxSets == 2

\* Number of direct invocations of _compute_normalization in one behaviour.
MaxNormCalls == 2

\* Number of candidates make_model_params draws before it gives up.
MaxAttempts == 3

----------------------------------------------------------------------------
(* Program constants.                                                       *)

Performed == 0

Failed == 1

NotRequested == 2

DefaultDegree == 3

----------------------------------------------------------------------------
(* Extended rational arithmetic.                                            *)

None == <<>>

Abs(n) == IF n < 0 THEN -n ELSE n

Sign(n) == IF n < 0 THEN -1 ELSE IF n > 0 THEN 1 ELSE 0

RECURSIVE GCD(_, _)
GCD(a, b) == IF b = 0 THEN a ELSE GCD(b, a % b)

Norm(n, d) ==
    IF d = 0 THEN <<Sign(n), 0>>
    ELSE LET g == GCD(Abs(n), Abs(d))
         IN  <<(Sign(d) * n) \div g, Abs(d) \div g>>

R(n) == <<n, 1>>

Zero == <<0, 1>>

One == <<1, 1>>

PosInf == <<1, 0>>

NegInf == <<-1, 0>>

NaN == <<0, 0>>

IsFinite(a) == a[2] # 0

IsZero(a) == a[1] = 0 /\ a[2] # 0

RMul(a, b) == Norm(a[1] * b[1], a[2] * b[2])

RAdd(a, b) ==
    IF a[2] = 0 /\ b[2] = 0
    THEN (IF a[1] = b[1] THEN a ELSE NaN)
    ELSE Norm(a[1] * b[2] + b[1] * a[2], a[2] * b[2])

RNeg(a) == <<-a[1], a[2]>>

RSub(a, b) == RAdd(a, RNeg(b))

\* IEEE division: x/0 is +/-inf, 0/0 is nan; never raises.
Recip(b) == IF IsZero(b) THEN PosInf ELSE Norm(Sign(b[1]) * b[2], Abs(b[1]))

RDiv(a, b) == RMul(a, Recip(b))

\* Comparisons of finite values (and of a finite value with +/-inf).
RLt(a, b) == a[1] * b[2] < b[1] * a[2]

RGt(a, b) == RLt(b, a)

RLe(a, b) == a[1] * b[2] <= b[1] * a[2] /\ a # NaN /\ b # NaN

\* A float sum that left the finite range is +/-inf.
Overflow(a) ==
    IF IsFinite(a) /\ Abs(a[1]) > FloatMax * a[2] THEN <<Sign(a[1]), 0>> ELSE a

----------------------------------------------------------------------------
(* Python values that are None, a scalar or a sequence (origin,             *)
(* oversampling, degree).                                                   *)

PyNone == [kind |-> "None"]

Scalar(v) == [kind |-> "scalar", v |-> v]

PySeq(items) == [kind |-> "seq", items |-> items]

\* hasattr(v, '__iter__') and len(v) == 2
IsPair(v) == v.kind = "seq" /\ Len(v.items) = 2

----------------------------------------------------------------------------
(* Arrays: a 2D array is a sequence of rows; <<>> is the 1-D empty array.   *)

RECURSIVE Flatten(_)
Flatten(data) ==
    IF data = <<>> THEN <<>> ELSE Head(data) \o Flatten(Tail(data))

Size(data) == Len(Flatten(data))

\* np.all(np.isfinite(data))
AllFinite(data) == \A i \in 1..Size(data) : IsFinite(Flatten(data)[i])

\* Sequential float accumulation, as numpy sums an array of fewer than 8
\* elements; once +/-inf the sum stays non-finite.
RECURSIVE SumFrom(_, _)
SumFrom(acc, cells) ==
    IF cells = <<>> THEN acc
    ELSE SumFrom(Overflow(RAdd(acc, Head(cells))), Tail(cells))

np_sum(data) == SumFrom(Zero, Flatten(data))

\* array / scalar, elementwise, IEEE semantics
ArrayDiv(data, s) ==
    [j \in 1..Len(data) |-> [i \in 1..Len(data[j]) |-> RDiv(data[j][i], s)]]

\* scalar * array
ArrayScale(s, data) ==
    [j \in 1..Len(data) |-> [i \in 1..Len(data[j]) |-> RMul(s, data[j][i])]]

----------------------------------------------------------------------------
(* Outcome of a method: the object as the method left it, and the           *)
(* exception it raised ("none" when it returned).                           *)

Ok(m) == [self |-> m, exc |-> "none"]

Raise(m, e) == [self |-> m, exc |-> e]

NoModel == [cls |-> "none"]

----------------------------------------------------------------------------
(* Raw image norm and normalization.  raw_calls counts the executions of    *)
(* _compute_raw_image_norm on the object.                                   *)

DefaultNormRadius == <<11, 2>>

\* aper.do_photometry(data, method='exact') for a CircularAperture that
\* contains every pixel of the array: each pixel has weight 1.  With
\* xypos = (nx/2, ny/2) and r = norm_radius * oversampling[0] >= 5.5 this is
\* the case for every array of at most 6 x 6 pixels.
do_photometry(data, xypos, r) == np_sum(data)

_compute_raw_image_norm(m) == np_sum(m.data)

EPSF_compute_raw_image_norm(m) ==
    LET xypos  == <<Norm(m.nx, 2), Norm(m.ny, 2)>>
        radius == RMul(m.norm_radius, R(m.oversampling[1]))
    IN  RDiv(do_photometry(m.data, xypos, radius),
             R(m.oversampling[1] * m.oversampling[2]))

\* self._compute_raw_image_norm(): dispatch on the object's class
self_compute_raw_image_norm(m) ==
    IF m.cls = "EPSFModel" THEN EPSF_compute_raw_image_norm(m)
    ELSE _compute_raw_image_norm(m)

\* self._img_norm = self._compute_raw_image_norm()
StoreRawNorm(m) ==
    [m EXCEPT !.img_norm = self_compute_raw_image_norm(m),
              !.raw_calls = @ + 1]

\* Mutant of CacheRawNorm: the cached value is not reused.
CacheRawNorm_Recompute(m) == StoreRawNorm(m)

\* if self._img_norm is None: self._img_norm = self._compute_raw_image_norm()
CacheRawNorm(m) == IF m.img_norm = None THEN StoreRawNorm(m) ELSE m

\* self._img_norm != 0.0 and np.isfinite(self._img_norm)
NormUsable(m) == ~IsZero(m.img_norm) /\ IsFinite(m.img_norm)

\* Mutant of _compute_normalization: the fallback keeps 1/correction.
_compute_normalization_KeepConstant(m, normalize) ==
    IF IsZero(m.normalization_correction)
    THEN Raise(m, "ZeroDivisionError")
    ELSE LET m1 == [m EXCEPT !.normalization_constant =
                                 RDiv(One, m.normalization_correction)]
         IN  IF normalize
             THEN LET m2 == CacheRawNorm(m1)
                  IN  IF NormUsable(m2)
                      THEN Ok([m2 EXCEPT !.normalization_constant =
                                             RDiv(@, m2.img_norm),
                                         !.normalization_status = Performed])
                      ELSE Ok([m2 EXCEPT !.normalization_status = Failed])
             ELSE Ok([m1 EXCEPT !.normalization_status = NotRequested])

\* Mutant of _compute_normalization: the grid is rescaled in place.
_compute_normalization_InPlace(m, normalize) ==
    LET o == _compute_normalization_KeepConstant(m, normalize)
    IN  [o EXCEPT !.self.data = ArrayScale(o.self.normalization_constant, @)]

_compute_normalization(m, normalize) ==
    IF IsZero(m.normalization_correction)
    THEN Raise(m, "ZeroDivisionError")
    ELSE LET m1 == [m EXCEPT !.normalization_constant =
                                 RDiv(One, m.normalization_correction)]
         IN  IF normalize
             THEN LET m2 == CacheRawNorm(m1)
                  IN  IF NormUsable(m2)
                      THEN Ok([m2 EXCEPT !.normalization_constant =
                                             RDiv(@, m2.img_norm),
                                         !.normalization_status = Performed])
                      ELSE Ok([m2 EXCEPT !.normalization_constant = One,
                                         !.normalization_status = Failed])
             ELSE Ok([m1 EXCEPT !.normalization_status = NotRequested])

EPSF_compute_normalization(m, normalize) ==
    IF normalize
    THEN LET m1 == IF m.img_norm = None
                   THEN (IF IsZero(np_sum(m.data))
                         THEN [m EXCEPT !.img_norm = One]
                         ELSE StoreRawNorm(m))
                   ELSE m
         IN  IF NormUsable(m1)
             THEN Ok([m1 EXCEPT !.data =
                                    ArrayDiv(@, RMul(m1.img_norm,
                                                m1.normalization_correction)),
                                !.normalization_status = Performed])
             ELSE Ok([m1 EXCEPT !.normalization_status = Failed,
                                !.img_norm = One])
    ELSE Ok([m EXCEPT !.normalization_status = NotRequested])

\* self._compute_normalization(...): dispatch on the object's class
self_compute_normalization(m, normalize) ==
    IF m.cls = "EPSFModel" THEN EPSF_compute_normalization(m, normalize)
    ELSE _compute_normalization(m, normalize)

\* The returned flux is left in the object's flux field, where
\* super().__init__(flux, x_0, y_0) puts it next.
_initial_norm(m, flux, normalize) ==
    LET m1 == IF flux = None THEN CacheRawNorm(m) ELSE m
        fl == IF flux = None THEN m1.img_norm ELSE flux
        o  == self_compute_normalization(m1, normalize)
    IN  [o EXCEPT !.self.flux = fl]

EPSF_initial_norm(m, flux, normalize) ==
    LET m1 == IF flux = None THEN CacheRawNorm(m) ELSE m
        fl == IF flux = None THEN m1.img_norm ELSE flux
        o  == IF normalize THEN self_compute_normalization(m1, TRUE)
              ELSE Ok(StoreRawNorm(m1))
    IN  [o EXCEPT !.self.flux = fl]

self_initial_norm(m, flux, normalize) ==
    IF m.cls = "EPSFModel" THEN EPSF_initial_norm(m, flux, normalize)
    ELSE _initial_norm(m, flux, normalize)

\* property normalized_data
normalized_data(m) ==
    IF m.cls = "EPSFModel" THEN m.data
    ELSE ArrayScale(m.normalization_constant, m.data)

\* Mutant of normalization_correction_setter: the flux is not rescaled.
normalization_correction_setter_KeepFlux(m, normalization_correction) ==
    LET m1 == [m EXCEPT !.normalization_correction = normalization_correction]
    IN  self_compute_normalization(m1, m1.normalization_status # NotRequested)

\* normalization_correction.setter
normalization_correction_setter(m, normalization_correction) ==
    LET old_cf == m.normalization_correction
        m1 == [m EXCEPT !.normalization_correction = normalization_correction]
        o  == self_compute_normalization(m1,
                                         m1.normalization_status # NotRequested)
    IN  IF o.exc # "none" THEN o
        ELSE IF IsZero(old_cf) THEN Raise(o.self, "ZeroDivisionError")
        ELSE Ok([o.self EXCEPT !.flux =
                     RMul(@, RDiv(normalization_correction, old_cf))])

----------------------------------------------------------------------------
(* Origin, fill value, interpolator.                                        *)

\* origin.setter of FittableImageModel
origin_setter(m, origin) ==
    IF origin.kind = "None"
    THEN Ok([m EXCEPT !.x_origin = Norm(m.nx - 1, 2),
                      !.y_origin = Norm(m.ny - 1, 2)])
    ELSE IF IsPair(origin)
    THEN Ok([m EXCEPT !.x_origin = origin.items[1],
                      !.y_origin = origin.items[2]])
    ELSE Raise(m, "TypeError")

\* origin.setter of EPSFModel
EPSF_origin_setter(m, origin) ==
    IF origin.kind = "None"
    THEN Ok([m EXCEPT !.x_origin = Norm(m.nx - 1, 2 * m.oversampling[2]),
                      !.y_origin = Norm(m.ny - 1, 2 * m.oversampling[1])])
    ELSE IF IsPair(origin)
    THEN Ok([m EXCEPT !.x_origin = origin.items[1],
                      !.y_origin = origin.items[2]])
    ELSE Raise(m, "TypeError")

self_origin_setter(m, origin) ==
    IF m.cls = "EPSFModel" THEN EPSF_origin_setter(m, origin)
    ELSE origin_setter(m, origin)

\* fill_value.setter
fill_value_setter(m, fill_value) == Ok([m EXCEPT !.fill_value = fill_value])

\* degx, degy of compute_interpolator; kwargs.degree is PyNone when the
\* 'degree' keyword is absent
Degrees(kwargs) ==
    IF kwargs.degree.kind = "None" THEN <<DefaultDegree, DefaultDegree>>
    ELSE IF IsPair(kwargs.degree)
    THEN <<kwargs.degree.items[1], kwargs.degree.items[2]>>
    ELSE <<kwargs.degree.v, kwargs.degree.v>>

\* np.arange(n, dtype=float) / step
Arange(n, step) == [i \in 1..n |-> Norm(i - 1, step)]

\* RectBivariateSpline refuses (ValueError) degrees outside 1..5 and axes
\* with no more points than the degree.
BuilderAccepts(x, y, kx, ky) ==
    /\ kx \in 1..5 /\ ky \in 1..5
    /\ Len(x) > kx /\ Len(y) > ky

\* RectBivariateSpline(x, y, data.T, kx, ky, s): the surface keeps the knots
\* and a copy of the data it was built from.
RectBivariateSpline(x, y, data, kx, ky) ==
    [x |-> x, y |-> y, z |-> data, kx |-> kx, ky |-> ky]

compute_interpolator(m, kwargs) ==
    LET deg == Degrees(kwargs)
        x == Arange(m.nx, 1)
        y == Arange(m.ny, 1)
    IN  IF deg[1] < 0 \/ deg[2] < 0 THEN Raise(m, "ValueError")
        ELSE IF ~BuilderAccepts(x, y, deg[1], deg[2])
        THEN Raise(m, "ValueError")
        ELSE Ok([m EXCEPT !.interpolator =
                              RectBivariateSpline(x, y, m.data,
                                                  deg[1], deg[2]),
                          !.interpolator_kwargs = kwargs])

EPSF_compute_interpolator(m, kwargs) ==
    LET deg == Degrees(kwargs)
        x == Arange(m.nx, m.oversampling[2])
        y == Arange(m.ny, m.oversampling[1])
    IN  IF deg[1] < 0 \/ deg[2] < 0 THEN Raise(m, "ValueError")
        ELSE IF ~BuilderAccepts(x, y, deg[1], deg[2])
        THEN Raise(m, "ValueError")
        ELSE Ok([m EXCEPT !.interpolator =
                              RectBivariateSpline(x, y, m.data,
                                                  deg[1], deg[2]),
                          !.interpolator_kwargs = kwargs])

self_compute_interpolator(m, kwargs) ==
    IF m.cls = "EPSFModel" THEN EPSF_compute_interpolator(m, kwargs)
    ELSE compute_interpolator(m, kwargs)

(* interpolator.ev(xi, yi) of a surface of degree 1 in both axes with      *)
(* s = 0: the bilinear interpolant of the data at the knots, evaluated at   *)
(* the nearest boundary point outside its domain.  The inputs below build   *)
(* surfaces of degree 1 only.                                               *)

Clamp(v, lo, hi) == IF RLt(v, lo) THEN lo ELSE IF RGt(v, hi) THEN hi ELSE v

\* First knot interval [knots[i], knots[i+1]] that holds v
Interval(knots, v) ==
    IF Len(knots) = 1 THEN 1
    ELSE CHOOSE i \in 1..(Len(knots) - 1) :
             /\ RLe(knots[i], v) /\ RLe(v, knots[i + 1])
             /\ \A k \in 1..(i - 1) : ~(RLe(knots[k], v) /\ RLe(v, knots[k + 1]))

Fraction(knots, i, v) ==
    IF Len(knots) = 1 THEN Zero
    ELSE RDiv(RSub(v, knots[i]), RSub(knots[i + 1], knots[i]))

Lerp(a, b, t) ==
    IF t = Zero THEN a ELSE IF t = One THEN b
    ELSE RAdd(a, RMul(t, RSub(b, a)))

ev(interp, xi, yi) ==
    LET xc == Clamp(xi, interp.x[1], interp.x[Len(interp.x)])
        yc == Clamp(yi, interp.y[1], interp.y[Len(interp.y)])
        i  == Interval(interp.x, xc)
        j  == Interval(interp.y, yc)
        i2 == IF Len(interp.x) = 1 THEN i ELSE i + 1
        j2 == IF Len(interp.y) = 1 THEN j ELSE j + 1
        t  == Fraction(interp.x, i, xc)
        u  == Fraction(interp.y, j, yc)
    IN  Lerp(Lerp(interp.z[j][i], interp.z[j][i2], t),
             Lerp(interp.z[j2][i], interp.z[j2][i2], t), u)

----------------------------------------------------------------------------
(* evaluate                                                                 *)

\* Mutant of evaluate_xi: the y-axis oversampling factor scales x.
evaluate_xi_FirstFactor(m, x, x_0, use_oversampling) ==
    RAdd(IF use_oversampling
         THEN RMul(R(m.oversampling[1]), RSub(x, x_0))
         ELSE RSub(x, x_0),
         m.x_origin)

\* xi of FittableImageModel.evaluate
evaluate_xi(m, x, x_0, use_oversampling) ==
    RAdd(IF use_oversampling
         THEN RMul(R(m.oversampling[2]), RSub(x, x_0))
         ELSE RSub(x, x_0),
         m.x_origin)

\* yi of FittableImageModel.evaluate
evaluate_yi(m, y, y_0, use_oversampling) ==
    RAdd(IF use_oversampling
         THEN RMul(R(m.oversampling[1]), RSub(y, y_0))
         ELSE RSub(y, y_0),
         m.y_origin)

\* Mutant of evaluate_invalid: the upper boundary counts as outside.
evaluate_invalid_Half(m, xi, yi) ==
    \/ RLt(xi, Zero) \/ ~RLt(xi, R(m.nx - 1))
    \/ RLt(yi, Zero) \/ ~RLt(yi, R(m.ny - 1))

\* invalid of FittableImageModel.evaluate
evaluate_invalid(m, xi, yi) ==
    \/ RLt(xi, Zero) \/ RGt(xi, R(m.nx - 1))
    \/ RLt(yi, Zero) \/ RGt(yi, R(m.ny - 1))

\* invalid of EPSFModel.evaluate
EPSF_evaluate_invalid(m, xi, yi) ==
    \/ RLt(xi, Zero) \/ RGt(xi, Norm(m.nx - 1, m.oversampling[2]))
    \/ RLt(yi, Zero) \/ RGt(yi, Norm(m.ny - 1, m.oversampling[1]))

\* The returned value at one point, with the coordinates the surface was
\* queried at and whether the point was overwritten by the fill value.
evaluate(m, x, y, flux, x_0, y_0, use_oversampling) ==
    LET xi == evaluate_xi(m, x, x_0, use_oversampling)
        yi == evaluate_yi(m, y, y_0, use_oversampling)
        f  == RMul(flux, m.normalization_constant)
        evaluated_model == RMul(f, ev(m.interpolator, xi, yi))
        invalid == m.fill_value # None /\ evaluate_invalid(m, xi, yi)
    IN  [xi |-> xi, yi |-> yi, invalid |-> invalid,
         value |-> IF invalid THEN m.fill_value ELSE evaluated_model]

EPSF_evaluate(m, x, y, flux, x_0, y_0) ==
    LET xi == RAdd(RSub(x, x_0), m.x_origin)
        yi == RAdd(RSub(y, y_0), m.y_origin)
        evaluated_model == RMul(flux, ev(m.interpolator, xi, yi))
        invalid == m.fill_value # None /\ EPSF_evaluate_invalid(m, xi, yi)
    IN  [xi |-> xi, yi |-> yi, invalid |-> invalid,
         value |-> IF invalid THEN m.fill_value ELSE evaluated_model]

\* model.evaluate(...): EPSFModel.evaluate takes no use_oversampling
self_evaluate(m, x, y, flux, x_0, y_0, use_oversampling) ==
    IF m.cls = "EPSFModel" THEN EPSF_evaluate(m, x, y, flux, x_0, y_0)
    ELSE evaluate(m, x, y, flux, x_0, y_0, use_oversampling)

----------------------------------------------------------------------------
(* Construction.                                                            *)

\* as_pair('oversampling', value, lower_bound=(0, 1)) accepts a positive
\* integer or a pair of positive integers
as_pair_ok(value) ==
    \/ value.kind = "scalar" /\ value.v > 0
    \/ IsPair(value) /\ value.items[1] > 0 /\ value.items[2] > 0

\* a scalar is used for both axes
as_pair(value) ==
    IF value.kind = "scalar" THEN <<value.v, value.v>>
    ELSE <<value.items[1], value.items[2]>>

\* Mutant of CorrectionRejected: the constructor does not check.
CorrectionRejected_Never(normalization_correction) == FALSE

\* 'normalization_correction' must be strictly positive
CorrectionRejected(normalization_correction) ==
    RLe(normalization_correction, Zero)

\* self._ny, self._nx = self._data.shape needs a 2D array
Is2D(data) == data # <<>>

\* __init__ of FittableImageModel; EPSFModel.__init__ stores norm_radius and
\* calls it.  a holds the arguments; a.degree is the 'degree' keyword.
\* Attributes not yet assigned are None.
__init__(a) ==
    IF ~as_pair_ok(a.oversampling) THEN Raise(NoModel, "ValueError")
    ELSE IF CorrectionRejected(a.normalization_correction)
    THEN Raise(NoModel, "ValueError")
    ELSE IF IsZero(a.normalization_correction)
    THEN Raise(NoModel, "ZeroDivisionError")
    ELSE IF ~AllFinite(a.data) THEN Raise(NoModel, "ValueError")
    ELSE IF ~Is2D(a.data) THEN Raise(NoModel, "ValueError")
    ELSE IF Size(a.data) < 1 THEN Raise(NoModel, "ValueError")
    ELSE
    LET kwargs == [degree |-> a.degree]
        m0 == [cls |-> a.cls,
               norm_radius |-> DefaultNormRadius,
               fill_value |-> a.fill_value,
               img_norm |-> None,
               normalization_status |->
                   IF a.normalize THEN Performed ELSE NotRequested,
               interpolator_kwargs |-> kwargs,
               oversampling |-> as_pair(a.oversampling),
               normalization_correction |-> a.normalization_correction,
               normalization_constant |->
                   RDiv(One, a.normalization_correction),
               data |-> a.data,
               ny |-> Len(a.data),
               nx |-> Len(a.data[1]),
               x_origin |-> None,
               y_origin |-> None,
               flux |-> None,
               x_0 |-> a.x_0,
               y_0 |-> a.y_0,
               interpolator |-> [x |-> <<>>],
               raw_calls |-> 0]
        o1 == self_origin_setter(m0, a.origin)
        o2 == self_initial_norm(o1.self, a.flux, a.normalize)
        o3 == self_compute_interpolator(o2.self, kwargs)
    IN  IF o1.exc # "none" THEN Raise(NoModel, o1.exc)
        ELSE IF o2.exc # "none" THEN Raise(NoModel, o2.exc)
        ELSE IF o3.exc # "none" THEN Raise(NoModel, o3.exc)
        ELSE o3

----------------------------------------------------------------------------
(* make_psf_model_image.  A psf_model is a record of what the function     *)
(* reads from it: param_names, the (x, y, flux) names                       *)
(* _get_psf_model_params returns, its bounding box ((y_lo, y_hi),           *)
(* (x_lo, x_hi)) or NoBoundingBox, and the default flux.  keyword           *)
(* arguments are a sequence of <<name, <<lower, upper>> >>.                 *)

NoBoundingBox == <<>>

\* _get_psf_model_params(psf_model): the (x, y, flux) parameter names
_get_psf_model_params(psf_model) == psf_model.psf_params

\* np.round of a finite number: the nearest integer, a half to the even one
np_round(q) ==
    LET fl   == q[1] \div q[2]
        rem2 == 2 * (q[1] - fl * q[2])
    IN  IF rem2 < q[2] THEN fl
        ELSE IF rem2 > q[2] THEN fl + 1
        ELSE IF fl % 2 = 0 THEN fl ELSE fl + 1

\* Mutant of BoundingBoxShape: the axes are swapped.
BoundingBoxShape_Swapped(bbox) ==
    <<np_round(RSub(bbox[2][2], bbox[2][1])),
      np_round(RSub(bbox[1][2], bbox[1][1]))>>

\* (int(np.round(bbox[0][1] - bbox[0][0])),
\*  int(np.round(bbox[1][1] - bbox[1][0])))
BoundingBoxShape(bbox) ==
    <<np_round(RSub(bbox[1][2], bbox[1][1])),
      np_round(RSub(bbox[2][2], bbox[2][1]))>>

\* The model_shape the function goes on with, or the exception it raises
ResolveModelShape(psf_model, model_shape) ==
    IF model_shape.kind # "None"
    THEN IF as_pair_ok(model_shape) THEN Ok(as_pair(model_shape))
         ELSE Raise(None, "ValueError")
    ELSE IF psf_model.bounding_box = NoBoundingBox
    THEN Raise(None, "ValueError")
    ELSE Ok(BoundingBoxShape(psf_model.bounding_box))

\* Mutant of ResolveBorderSize: a given border_size is not used.
ResolveBorderSize_AlwaysDefault(model_shape, border_size) ==
    PySeq(<<(model_shape[1] - 1) \div 2, (model_shape[2] - 1) \div 2>>)

\* if border_size is None: border_size = (np.array(model_shape) - 1) // 2
ResolveBorderSize(model_shape, border_size) ==
    IF border_size.kind = "None"
    THEN PySeq(<<(model_shape[1] - 1) \div 2, (model_shape[2] - 1) \div 2>>)
    ELSE border_size

InSeq(x, s) == \E i \in 1..Len(s) : s[i] = x

\* Mutant of KeywordSkipped: only unknown names are skipped.
KeywordSkipped_UnknownOnly(psf_model, key) ==
    ~InSeq(key, psf_model.param_names)

\* key not in psf_model.param_names or key in psf_params[0:2]
KeywordSkipped(psf_model, key) ==
    \/ ~InSeq(key, psf_model.param_names)
    \/ InSeq(key, SubSeq(_get_psf_model_params(psf_model), 1, 2))

\* other_params: the keyword arguments not skipped, in their order
RECURSIVE OtherParams(_, _)
OtherParams(psf_model, kwargs) ==
    IF kwargs = <<>> THEN <<>>
    ELSE LET rest == OtherParams(psf_model, Tail(kwargs))
         IN  IF KeywordSkipped(psf_model, Head(kwargs)[1]) THEN rest
             ELSE <<Head(kwargs)>> \o rest

\* make_model_params reads border_size as a (ny, nx) pair
BorderPair(border_size) == as_pair(border_size)

\* The center (x, y) is not within the border region of an image of the
\* given (ny, nx) shape
OutsideBorder(shape, border_size, x, y) ==
    LET b == BorderPair(border_size)
    IN  /\ b[2] <= x /\ x <= shape[2] - 1 - b[2]
        /\ b[1] <= y /\ y <= shape[1] - 1 - b[1]

\* (x, y) is at least min_separation away from every source of the table
Separated(table, min_separation, x, y) ==
    \A i \in 1..Len(table) :
        (table[i].x - x) * (table[i].x - x)
            + (table[i].y - y) * (table[i].y - y)
            >= min_separation * min_separation

\* make_model_params keeps a candidate that is outside the border and
\* separated from the sources kept before it
CandidateAccepted(shape, border_size, min_separation, table, x, y) ==
    /\ OutsideBorder(shape, border_size, x, y)
    /\ Separated(table, min_separation, x, y)

\* The values drawn for the other parameters: the lower bound of the range,
\* or the upper bound for the parameters picked
DrawParams(other_params, picked) ==
    [i \in 1..Len(other_params) |->
        <<other_params[i][1],
          IF i \in picked THEN other_params[i][2][2]
          ELSE other_params[i][2][1]>>]

\* The row appended for an accepted source; ids count from 1
SourceRow(table, x, y, params) ==
    [id |-> Len(table) + 1, x |-> x, y |-> y, params |-> params]

\* The flux of a source: its flux column, or the model's own flux
RowFlux(psf_model, row) ==
    LET flux_name == _get_psf_model_params(psf_model)[3]
    IN  IF \E i \in 1..Len(row.params) : row.params[i][1] = flux_name
        THEN (CHOOSE p \in {row.params[i] : i \in 1..Len(row.params)} :
                  p[1] = flux_name)[2]
        ELSE psf_model.flux

\* Pixel (px, py) is in the model_shape patch centered on the source
InPatch(model_shape, row, px, py) ==
    LET x_lo == row.x - (model_shape[2] \div 2)
        y_lo == row.y - (model_shape[1] \div 2)
    IN  /\ x_lo <= px /\ px <= x_lo + model_shape[2] - 1
        /\ y_lo <= py /\ py <= y_lo + model_shape[1] - 1

RECURSIVE PixelSum(_, _, _, _, _)
PixelSum(psf_model, model_shape, table, px, py) ==
    IF table = <<>> THEN 0
    ELSE (IF InPatch(model_shape, Head(table), px, py)
          THEN RowFlux(psf_model, Head(table)) ELSE 0)
         + PixelSum(psf_model, model_shape, Tail(table), px, py)

\* make_model_image for a model that is flat over its patch: every source
\* adds its flux to the pixels of its patch; overlapping patches sum
make_model_image(shape, psf_model, params, model_shape) ==
    [py \in 1..shape[1] |->
        [px \in 1..shape[2] |->
            PixelSum(psf_model, model_shape, params, px - 1, py - 1)]]

----------------------------------------------------------------------------
(* Inputs.                                                                  *)

Classes == {"FittableImageModel", "EPSFModel"}

\* A finite value whose double is past the finite range
Big == R(FloatMax - 2)

GOnes == << <<One, One, One>>, <<One, One, One>> >>

GZeros == << <<Zero, Zero, Zero>>, <<Zero, Zero, Zero>> >>

GCancel == << <<One, R(-1), Zero>>, <<R(2), R(-2), Zero>> >>

GMixed == << <<One, R(2), Zero>>, <<Zero, R(-1), One>> >>

GBig == << <<Big, Big, Zero>>, <<Zero, Zero, Zero>> >>

GNaN == << <<NaN, One, Zero>>, <<Zero, Zero, Zero>> >>

GInf == << <<One, One, Zero>>, <<Zero, PosInf, Zero>> >>

GEmpty1D == <<>>

GEmpty2D == << <<>>, <<>> >>

FiniteGrids == {GOnes, GZeros, GCancel, GMixed, GBig}

BadGrids == {GNaN, GInf, GEmpty1D, GEmpty2D}

Corrections == {R(-1), Zero, One, R(2)}

PositiveCorrections == {Norm(1, 2), One, R(2)}

BadOrigins == {Scalar(One), PySeq(<<Zero>>)}

Origins == {PyNone, PySeq(<<Zero, One>>)} \cup BadOrigins

Oversamplings ==
    {Scalar(1), PySeq(<<3, 2>>), Scalar(0), PySeq(<<2, -1>>)}

FillValues == {None, R(7)}

BadDegrees == {Scalar(-1), PySeq(<<1, -1>>)}

\* Arguments of the constructor for the normalization life cycle
CtorArgs ==
    [cls : Classes, data : FiniteGrids \cup {GNaN, GEmpty2D},
     flux : {None, R(3)}, x_0 : {Zero}, y_0 : {Zero},
     normalize : BOOLEAN, normalization_correction : Corrections,
     origin : {PyNone}, oversampling : {PySeq(<<1, 2>>)},
     fill_value : {Zero}, degree : {Scalar(1)}]

\* Arguments of the constructor for evaluation
EvalCtorArgs ==
    [cls : Classes, data : {GMixed} \cup BadGrids,
     flux : {R(3)}, x_0 : {Zero}, y_0 : {Zero},
     normalize : {TRUE}, normalization_correction : {R(2), Zero, R(-1)},
     origin : Origins, oversampling : Oversamplings,
     fill_value : FillValues, degree : {PyNone, Scalar(1)} \cup BadDegrees]

\* Valid constructor arguments for the runs that apply every operation
FullCtorArgs ==
    [cls : Classes, data : {GMixed}, flux : {R(3)},
     normalize : BOOLEAN, normalization_correction : {One},
     x_0 : {Zero}, y_0 : {Zero}, origin : {PyNone},
     oversampling : {PySeq(<<1, 2>>)},
     fill_value : {Zero}, degree : {Scalar(1)}]

\* The psf_model arguments: a model with a bounding box of extents
\* (2.5, 3), the same without one, and a model with other parameter names
PsfBoxed ==
    [param_names |-> <<"flux", "x_0", "y_0", "sigma">>,
     psf_params |-> <<"x_0", "y_0", "flux">>,
     bounding_box |-> <<<<Norm(-5, 4), Norm(5, 4)>>,
                        <<Norm(-3, 2), Norm(3, 2)>>>>,
     flux |-> 1]

PsfUnboxed == [PsfBoxed EXCEPT !.bounding_box = NoBoundingBox]

PsfRenamed ==
    [param_names |-> <<"amplitude_2", "xpos_0", "ypos_1">>,
     psf_params |-> <<"xpos_0", "ypos_1", "amplitude_2">>,
     bounding_box |-> <<<<Norm(-7, 4), Norm(7, 4)>>, <<R(-2), R(2)>>>>,
     flux |-> 1]

PsfModels == {PsfBoxed, PsfUnboxed, PsfRenamed}

ModelShapes == {PyNone, Scalar(3), PySeq(<<2, 4>>), Scalar(0)}

BorderSizes == {PyNone, Scalar(0), PySeq(<<1, 2>>)}

KeywordArguments ==
    {<<>>,
     <<<<"flux", <<2, 3>>>>>>,
     <<<<"x_0", <<0, 1>>>>, <<"foo", <<0, 1>>>>, <<"sigma", <<1, 1>>>>>>,
     <<<<"ypos_1", <<0, 1>>>>, <<"amplitude_2", <<2, 2>>>>>>}

\* The (ny, nx) shape of the image
SceneShape == <<3, 5>>

\* Arguments of make_psf_model_image: every way of giving the model, the
\* patch shape, the border and the parameter ranges for one source, and
\* several sources and separations for one model
SceneArgs ==
    [shape : {SceneShape}, psf_model : PsfModels, n_sources : {1},
     model_shape : ModelShapes, min_separation : {1},
     border_size : BorderSizes, kwargs : KeywordArguments]
    \cup
    [shape : {SceneShape}, psf_model : {PsfBoxed}, n_sources : {0, 2},
     model_shape : {PyNone, Scalar(3)}, min_separation : {2, 3},
     border_size : {PyNone, Scalar(0)}, kwargs : {<<>>}]

\* The candidate centers the random stream can draw
CandidateXs == 0..(SceneShape[2] - 1)

CandidateYs == 0..(SceneShape[1] - 1)

XQueries == {R(-1), Norm(-1, 2), Norm(1, 2), One, R(2)}

YQueries == {R(-1), Norm(-1, 2), Norm(1, 2), One}

Centers == {<<Zero, Zero>>, <<Norm(1, 2), Norm(-1, 2)>>}

----------------------------------------------------------------------------
(* The state machine.                                                       *)

Init ==
    /\ model = NoModel
    /\ ctor = [cls |-> "none"]
    /\ call = [op |-> "none", raised |-> "none"]
    /\ hist = [sets |-> 0, norms |-> 0]
    /\ scene = [pc |-> "idle"]

Constructed == model.cls # "none"

\* Model(data, ...): one construction per behaviour
Construct(Args) ==
    /\ call.op = "none"
    /\ \E a \in Args :
         LET o == __init__(a)
         IN  /\ model' = o.self
             /\ ctor' = a
             /\ call' = [op |-> "__init__", raised |-> o.exc]
    /\ UNCHANGED <<hist, scene>>

\* model.normalization_correction = value
SetNormalizationCorrection(Values) ==
    /\ Constructed
    /\ hist.sets < MaxSets
    /\ \E value \in Values :
         LET o == normalization_correction_setter(model, value)
         IN  /\ model' = o.self
             /\ call' = [op |-> "normalization_correction", value |-> value,
                         old_cf |-> model.normalization_correction,
                         raised |-> o.exc]
    /\ hist' = [hist EXCEPT !.sets = @ + 1]
    /\ UNCHANGED <<ctor, scene>>

\* model._compute_normalization(normalize)
ComputeNormalization ==
    /\ Constructed
    /\ hist.norms < MaxNormCalls
    /\ \E normalize \in BOOLEAN :
         LET o == self_compute_normalization(model, normalize)
         IN  /\ model' = o.self
             /\ call' = [op |-> "_compute_normalization",
                         normalize |-> normalize, raised |-> o.exc,
                         repeats |-> /\ call.op = "_compute_normalization"
                                     /\ call.normalize = normalize
                                     /\ call.raised = "none"]
    /\ hist' = [hist EXCEPT !.norms = @ + 1]
    /\ UNCHANGED <<ctor, scene>>

\* model.fill_value = value
SetFillValue ==
    /\ Constructed
    /\ \E value \in FillValues :
         LET o == fill_value_setter(model, value)
         IN  /\ model' = o.self
             /\ call' = [op |-> "fill_value", value |-> value,
                         raised |-> o.exc]
    /\ UNCHANGED <<ctor, hist, scene>>

\* model.origin = value
SetOrigin ==
    /\ Constructed
    /\ \E value \in Origins :
         LET o == self_origin_setter(model, value)
         IN  /\ model' = o.self
             /\ call' = [op |-> "origin", value |-> value, raised |-> o.exc]
    /\ UNCHANGED <<ctor, hist, scene>>

\* model.compute_interpolator(degree=...)
ComputeInterpolator ==
    /\ Constructed
    /\ \E degree \in {PyNone, Scalar(1), PySeq(<<1, 1>>)} \cup BadDegrees :
         LET o == self_compute_interpolator(model, [degree |-> degree])
         IN  /\ model' = o.self
             /\ call' = [op |-> "compute_interpolator", degree |-> degree,
                         raised |-> o.exc]
    /\ UNCHANGED <<ctor, hist, scene>>

\* model.evaluate(x, y, flux, x_0, y_0[, use_oversampling=...]) at one point,
\* with the model's flux; EPSFModel.evaluate has no use_oversampling.
\* evaluate only reads the model: an evaluation right after another one
\* reaches nothing the first does not, so it is not repeated.
EvaluateAt(Xs, Ys, Cs) ==
    /\ Constructed
    /\ call.op # "evaluate"
    /\ \E x \in Xs, y \in Ys, c \in Cs, use_oversampling \in BOOLEAN :
         /\ model.cls = "EPSFModel" => use_oversampling
         /\ call' = [op |-> "evaluate", x |-> x, y |-> y, flux |-> model.flux,
                     x_0 |-> c[1], y_0 |-> c[2],
                     use_oversampling |-> use_oversampling,
                     raised |-> "none",
                     ret |-> self_evaluate(model, x, y, model.flux,
                                           c[1], c[2], use_oversampling)]
    /\ UNCHANGED <<model, ctor, hist, scene>>

Evaluate == EvaluateAt(XQueries, YQueries, Centers)

\* make_psf_model_image(shape, psf_model, n_sources, ...), up to the call of
\* make_model_params: one call per behaviour
MakePsfModelImage ==
    /\ scene.pc = "idle"
    /\ \E a \in SceneArgs :
         LET o == ResolveModelShape(a.psf_model, a.model_shape)
         IN  IF o.exc # "none"
             THEN scene' = [pc |-> "raised", args |-> a, exc |-> o.exc]
             ELSE scene' =
                      [pc |-> "placing", args |-> a, exc |-> "none",
                       model_shape |-> o.self,
                       border_size |-> ResolveBorderSize(o.self,
                                                         a.border_size),
                       other_params |-> OtherParams(a.psf_model, a.kwargs),
                       min_separation |-> a.min_separation,
                       params |-> <<>>, attempts |-> 0, rejected |-> 0]
    /\ UNCHANGED <<model, ctor, call, hist>>

\* make_model_params draws one more candidate and its parameter values
PlaceCandidate ==
    /\ scene.pc = "placing"
    /\ Len(scene.params) < scene.args.n_sources
    /\ scene.attempts < MaxAttempts
    /\ \E x \in CandidateXs, y \in CandidateYs,
          picked \in SUBSET (1..Len(scene.other_params)) :
         IF CandidateAccepted(scene.args.shape, scene.border_size,
                              scene.min_separation, scene.params, x, y)
         THEN scene' = [scene EXCEPT
                  !.attempts = @ + 1,
                  !.params = Append(@, SourceRow(@, x, y,
                                 DrawParams(scene.other_params, picked)))]
         ELSE /\ picked = {}
              /\ scene' = [scene EXCEPT !.attempts = @ + 1,
                                        !.rejected = @ + 1]
    /\ UNCHANGED <<model, ctor, call, hist>>

\* Mutant of PlacementOver: the placement ends only with every source.
PlacementOver_WhenComplete(sc) == Len(sc.params) = sc.args.n_sources

\* make_model_params stops with n_sources sources or out of candidates
PlacementOver(sc) ==
    \/ Len(sc.params) = sc.args.n_sources
    \/ sc.attempts = MaxAttempts

\* make_model_params returns its table; make_model_image renders it and
\* make_psf_model_image returns (data, params)
MakeModelImage ==
    /\ scene.pc = "placing"
    /\ PlacementOver(scene)
    /\ scene' = [pc |-> "returned", args |-> scene.args, exc |-> "none",
                 model_shape |-> scene.model_shape,
                 border_size |-> scene.border_size,
                 other_params |-> scene.other_params,
                 min_separation |-> scene.min_separation,
                 params |-> scene.params, attempts |-> scene.attempts,
                 rejected |-> scene.rejected,
                 data |-> make_model_image(scene.args.shape,
                                           scene.args.psf_model,
                                           scene.params, scene.model_shape)]
    /\ UNCHANGED <<model, ctor, call, hist>>

Next ==
    \/ Construct(CtorArgs)
    \/ SetNormalizationCorrection(Corrections)
    \/ ComputeNormalization

Spec == Init /\ [][Next]_vars

NextPositive ==
    \/ Construct(CtorArgs)
    \/ SetNormalizationCorrection(PositiveCorrections)
    \/ ComputeNormalization

SpecPositive == Init /\ [][NextPositive]_vars

NextEvaluate ==
    \/ Construct(EvalCtorArgs)
    \/ SetFillValue
    \/ SetOrigin
    \/ ComputeInterpolator
    \/ Evaluate

SpecEvaluate == Init /\ [][NextEvaluate]_vars

\* Every operation on a validly constructed model
NextFull ==
    \/ Construct(FullCtorArgs)
    \/ SetNormalizationCorrection({R(2)})
    \/ ComputeNormalization
    \/ SetFillValue
    \/ SetOrigin
    \/ ComputeInterpolator
    \/ EvaluateAt({One}, {Norm(1, 2)}, {<<Zero, Zero>>})

SpecFull == Init /\ [][NextFull]_vars

NextScene ==
    \/ MakePsfModelImage
    \/ PlaceCandidate
    \/ MakeModelImage

SpecScene == Init /\ [][NextScene]_vars

\* make_psf_model_image runs to its end once called
SpecSceneFair == SpecScene /\ WF_vars(NextScene)

----------------------------------------------------------------------------
(* Claims.                                                                  *)

IsFIM == model.cls = "FittableImageModel"

IsEPSF == model.cls = "EPSFModel"

\* The step is an assignment model.normalization_correction = call'.value
SetStep == call'.op = "normalization_correction" /\ hist'.sets = hist.sets + 1

\* ... of a positive value over a positive value
PositiveSetStep ==
    /\ SetStep
    /\ RGt(model.normalization_correction, Zero)
    /\ RGt(call'.value, Zero)

\* C1: on a FittableImageModel, assigning a positive correction over a
\* positive one leaves flux = old_flux * new / old, and the constant
\* 1/new when normalization was not requested and 1/(new * raw flux) when
\* it was performed.
C1_FluxAndConstantFollowCorrection ==
    [][(IsFIM /\ PositiveSetStep) =>
        /\ model'.flux = RDiv(RMul(model.flux, call'.value),
                              model.normalization_correction)
        /\ model'.normalization_status = NotRequested =>
               model'.normalization_constant = RDiv(One, call'.value)
        /\ model'.normalization_status = Performed =>
               model'.normalization_constant =
                   RDiv(One, RMul(call'.value, model'.img_norm))]_vars

C1_Witness ==
    /\ IsFIM
    /\ call.op = "normalization_correction" /\ call.raised = "none"
    /\ RGt(call.old_cf, Zero) /\ RGt(call.value, Zero)
    /\ call.value # call.old_cf
    /\ model.normalization_status = Performed
    /\ IsFinite(model.flux) /\ ~IsZero(model.flux)

\* C2: on a FittableImageModel in any normalization status, assigning a
\* positive correction over a positive one leaves flux * constant unchanged,
\* and with it the value evaluate returns at every in-domain point for the
\* model's current parameters.
C2_FitPreserved ==
    [][(IsFIM /\ PositiveSetStep) =>
        /\ RMul(model'.flux, model'.normalization_constant)
               = RMul(model.flux, model.normalization_constant)
        /\ \A x \in XQueries, y \in YQueries :
             LET before == evaluate(model, x, y, model.flux,
                                    model.x_0, model.y_0, TRUE)
                 after  == evaluate(model', x, y, model'.flux,
                                    model'.x_0, model'.y_0, TRUE)
             IN  ~evaluate_invalid(model, before.xi, before.yi) =>
                     after.value = before.value]_vars

\* C3: on a FittableImageModel whose correction was only ever assigned
\* positive values, NotRequested means constant = 1/correction; Performed
\* means the raw flux is nonzero and finite, constant * correction * raw
\* flux = 1 and the normalized data sums to 1/correction; Failed means the
\* raw flux is zero or non-finite and the constant is 1.
C3_StatusAgreesWithConstant ==
    (Constructed /\ IsFIM) =>
        /\ model.normalization_status \in {Performed, Failed, NotRequested}
        /\ model.normalization_status = NotRequested =>
               model.normalization_constant
                   = RDiv(One, model.normalization_correction)
        /\ model.normalization_status = Performed =>
               /\ model.img_norm # None
               /\ ~IsZero(model.img_norm) /\ IsFinite(model.img_norm)
               /\ RMul(RMul(model.normalization_constant,
                            model.normalization_correction),
                       model.img_norm) = One
               /\ np_sum(normalized_data(model))
                      = RDiv(One, model.normalization_correction)
        /\ model.normalization_status = Failed =>
               /\ model.img_norm # None
               /\ IsZero(model.img_norm) \/ ~IsFinite(model.img_norm)
               /\ model.normalization_constant = One

C3_Witness ==
    /\ IsFIM
    /\ call.op = "normalization_correction" /\ call.raised = "none"
    /\ model.normalization_status = Failed
    /\ model.normalization_correction # One
    /\ ~IsFinite(model.img_norm)

\* C4: constructing either variant from an all-zero grid with normalization
\* requested (and otherwise valid arguments), whatever the flux argument,
\* raises nothing and ends Failed, with 1.0 as the constant
\* (FittableImageModel) or as the cached raw flux (EPSFModel).
C4_ZeroGridEndsFailed ==
    (/\ call.op = "__init__"
     /\ ctor.data = GZeros /\ ctor.normalize
     /\ RGt(ctor.normalization_correction, Zero)) =>
        /\ call.raised = "none"
        /\ Constructed
        /\ model.normalization_status = Failed
        /\ IsFIM => model.normalization_constant = One
        /\ IsEPSF => model.img_norm = One

\* C5: on a FittableImageModel built with normalize=False, a second
\* _compute_normalization(True) right after a first one computes no raw
\* flux (at most one computation in total) and leaves the constant and the
\* status as the first left them.
C5_NormalizationIdempotent ==
    [][(/\ IsFIM /\ ~ctor.normalize
        /\ call.op = "_compute_normalization" /\ call.normalize
        /\ call.raised = "none"
        /\ call'.op = "_compute_normalization" /\ call'.normalize
        /\ hist'.norms = hist.norms + 1) =>
        /\ call'.raised = "none"
        /\ model'.raw_calls = model.raw_calls
        /\ model'.raw_calls <= 1
        /\ model'.normalization_constant = model.normalization_constant
        /\ model'.normalization_status = model.normalization_status]_vars

C5_Witness ==
    /\ IsFIM /\ ~ctor.normalize
    /\ call.op = "_compute_normalization" /\ call.normalize
    /\ call.raised = "none" /\ call.repeats
    /\ model.normalization_status = Performed
    /\ model.raw_calls = 1

\* The closed domain of the claim: [0, nx-1] x [0, ny-1], each upper end
\* divided by the axis' oversampling factor for an EPSFModel
OutsideDomain(xi, yi) ==
    LET xmax == IF IsEPSF THEN Norm(model.nx - 1, model.oversampling[2])
                ELSE R(model.nx - 1)
        ymax == IF IsEPSF THEN Norm(model.ny - 1, model.oversampling[1])
                ELSE R(model.ny - 1)
    IN  ~(RLe(Zero, xi) /\ RLe(xi, xmax) /\ RLe(Zero, yi) /\ RLe(yi, ymax))

\* C6: with a fill value that is not None, evaluate returns the fill value
\* itself exactly at the points whose transformed coordinate lies outside
\* the closed domain; boundary points and, with fill value None, all points
\* get the scaled surface value.
C6_FillExactlyOutsideDomain ==
    call.op = "evaluate" =>
        LET r == call.ret
            scale == IF IsEPSF THEN call.flux
                     ELSE RMul(call.flux, model.normalization_constant)
        IN  /\ r.invalid <=>
                   (model.fill_value # None /\ OutsideDomain(r.xi, r.yi))
            /\ r.invalid => r.value = model.fill_value
            /\ ~r.invalid =>
                   r.value = RMul(scale, ev(model.interpolator, r.xi, r.yi))

C6_Witness ==
    /\ call.op = "evaluate"
    /\ IsFIM
    /\ model.fill_value # None
    /\ call.ret.xi = R(model.nx - 1)
    /\ call.ret.yi = R(model.ny - 1)
    /\ ~call.ret.invalid
    /\ call.ret.value # model.fill_value

\* The (oy, ox) the constructor was given
GivenOversampling ==
    IF ctor.oversampling.kind = "scalar"
    THEN <<ctor.oversampling.v, ctor.oversampling.v>>
    ELSE ctor.oversampling.items

\* C7: FittableImageModel.evaluate queries the surface at
\* xi = ox*(x - x_0) + x_origin, yi = oy*(y - y_0) + y_origin for
\* oversampling (oy, ox) with use_oversampling=True, and at
\* xi = (x - x_0) + x_origin, yi = (y - y_0) + y_origin without it.
C7_OversamplingTransform ==
    (call.op = "evaluate" /\ IsFIM) =>
        LET ox == IF call.use_oversampling THEN GivenOversampling[2] ELSE 1
            oy == IF call.use_oversampling THEN GivenOversampling[1] ELSE 1
        IN  /\ call.ret.xi = RAdd(RMul(R(ox), RSub(call.x, call.x_0)),
                                  model.x_origin)
            /\ call.ret.yi = RAdd(RMul(R(oy), RSub(call.y, call.y_0)),
                                  model.y_origin)

C7_Witness ==
    /\ call.op = "evaluate" /\ IsFIM
    /\ call.use_oversampling
    /\ GivenOversampling[1] # GivenOversampling[2]
    /\ call.x # call.x_0 /\ call.y # call.y_0
    /\ ~call.ret.invalid

\* The constructor arguments the claim says must be refused
BadArguments(a) ==
    \/ ~AllFinite(a.data)
    \/ Size(a.data) = 0
    \/ RLe(a.normalization_correction, Zero)
    \/ ~(a.origin.kind = "None" \/ IsPair(a.origin))
    \/ (a.oversampling.kind = "scalar" /\ a.oversampling.v <= 0)
    \/ (a.oversampling.kind = "seq" /\
            \E i \in 1..Len(a.oversampling.items) :
                a.oversampling.items[i] <= 0)
    \/ (a.degree.kind = "scalar" /\ a.degree.v < 0)
    \/ (a.degree.kind = "seq" /\
            \E i \in 1..Len(a.degree.items) : a.degree.items[i] < 0)

\* C8: constructing either variant raises, and leaves no model, when the
\* grid holds a non-finite value or no element, the correction is <= 0, the
\* origin is neither None nor a 2-element sequence, an oversampling factor
\* is not positive, or an interpolation degree is negative.
C8_BadArgumentsRefused ==
    (call.op = "__init__" /\ BadArguments(ctor)) =>
        /\ call.raised # "none"
        /\ model = NoModel

C8_Witness ==
    /\ call.op = "__init__"
    /\ call.raised = "ValueError"
    /\ model = NoModel
    /\ ctor.degree = PySeq(<<1, -1>>)
    /\ AllFinite(ctor.data) /\ Size(ctor.data) > 0
    /\ RGt(ctor.normalization_correction, Zero)
    /\ ctor.origin.kind = "None"
    /\ ctor.oversampling = Scalar(1)

\* C9: the stored correction factor is > 0 in every state of a model, also
\* after attempts to assign zero or a negative value.
C9_CorrectionStaysPositive ==
    Constructed => RGt(model.normalization_correction, Zero)

\* C10: an assignment to normalization_correction either returns with the
\* correction, the constant and the flux all updated, or raises with all
\* three as they were.
C10_AssignmentAllOrNothing ==
    [][SetStep =>
        \/ /\ call'.raised = "none"
           /\ model'.normalization_correction = call'.value
        \/ /\ call'.raised # "none"
           /\ model'.normalization_correction = model.normalization_correction
           /\ model'.normalization_constant = model.normalization_constant
           /\ model'.flux = model.flux]_vars

\* The aperture raw flux of a grid held by the model
ApertureRawFlux(data) ==
    EPSF_compute_raw_image_norm([model EXCEPT !.data = data])

\* C11: on an EPSFModel whose normalization was performed, built from a
\* grid of nonzero finite aperture raw flux and then only assigned positive
\* corrections, the stored grid is the constructor's grid divided by
\* (raw flux * current correction), its aperture raw flux times the current
\* correction is 1, and normalized_data is the stored grid.
C11_GridFollowsCorrection ==
    (/\ Constructed /\ IsEPSF
     /\ model.normalization_status = Performed
     /\ hist.norms = 0
     /\ ~IsZero(ApertureRawFlux(ctor.data))
     /\ IsFinite(ApertureRawFlux(ctor.data))) =>
        /\ model.data =
               ArrayDiv(ctor.data, RMul(ApertureRawFlux(ctor.data),
                                        model.normalization_correction))
        /\ RMul(ApertureRawFlux(model.data), model.normalization_correction)
               = One
        /\ normalized_data(model) = model.data

\* C12: _compute_raw_image_norm runs at most once per model, construction
\* included, and once _img_norm holds a value no construction,
\* _compute_normalization or correction assignment runs it again or stores
\* a different value.
C12_RawFluxCachedOnce ==
    /\ [](Constructed => model.raw_calls <= 1)
    /\ [][(Constructed /\ model.img_norm # None) =>
            /\ model'.img_norm = model.img_norm
            /\ model'.raw_calls = model.raw_calls]_vars

\* The same for the FittableImageModel alone (holds)
RawFluxCachedOnce_FIM ==
    /\ [](IsFIM => model.raw_calls <= 1)
    /\ [][(IsFIM /\ model.img_norm # None) =>
            /\ model'.img_norm = model.img_norm
            /\ model'.raw_calls = model.raw_calls]_vars

\* C13: on a FittableImageModel the stored grid and its shape stay those
\* given to the constructor through normalization, correction assignment,
\* fill-value and origin assignment, compute_interpolator and evaluate.
C13_GridImmutable ==
    (Constructed /\ IsFIM) =>
        /\ model.data = ctor.data
        /\ model.ny = Len(ctor.data)
        /\ model.nx = Len(ctor.data[1])

C13_Witness ==
    /\ IsFIM
    /\ call.op = "evaluate" /\ ~call.ret.invalid
    /\ hist.sets > 0 /\ hist.norms > 0
    /\ model.normalization_status = Performed
    /\ model.normalization_constant # One
    /\ model.fill_value # ctor.fill_value
    /\ model.x_origin # Norm(model.nx - 1, 2)
    /\ model.interpolator_kwargs # [degree |-> ctor.degree]
    /\ model.data = GMixed

\* C19: in every state of a constructed model of either variant on which
\* only public operations ran (no direct _compute_normalization call) the
\* interpolator was built from the grid as it is stored now, so evaluate
\* reads a surface that agrees with the stored grid.
C19_SurfaceBuiltFromStoredGrid ==
    (Constructed /\ hist.norms = 0) => model.interpolator.z = model.data

\* make_psf_model_image was called
SceneCalled == scene.pc # "idle"

\* n is the extent of the bounding box axis, rounded to an integer
RoundedExtent(n, axis) ==
    LET twice == RMul(R(2), RSub(R(n), RSub(axis[2], axis[1])))
    IN  RLe(R(-1), twice) /\ RLe(twice, One)

\* C14: make_psf_model_image goes on with an explicitly given (valid)
\* model_shape whether or not the model has a bounding box; with
\* model_shape None it goes on with the rounded extents of the bounding box;
\* with model_shape None and no bounding box it raises with no source
\* placed and no image made.
C14_ModelShapeResolved ==
    SceneCalled =>
        LET a == scene.args
        IN  /\ (a.model_shape.kind # "None" /\ as_pair_ok(a.model_shape)) =>
                   /\ scene.pc # "raised"
                   /\ scene.model_shape = as_pair(a.model_shape)
            /\ (/\ a.model_shape.kind = "None"
                /\ a.psf_model.bounding_box # NoBoundingBox) =>
                   /\ scene.pc # "raised"
                   /\ RoundedExtent(scene.model_shape[1],
                                    a.psf_model.bounding_box[1])
                   /\ RoundedExtent(scene.model_shape[2],
                                    a.psf_model.bounding_box[2])
            /\ (/\ a.model_shape.kind = "None"
                /\ a.psf_model.bounding_box = NoBoundingBox) =>
                   /\ scene.pc = "raised"
                   /\ scene.exc = "ValueError"
                   /\ scene = [pc |-> "raised", args |-> a,
                               exc |-> "ValueError"]

C14_Witness ==
    /\ scene.pc = "returned"
    /\ scene.args.psf_model = PsfUnboxed
    /\ scene.args.model_shape = PySeq(<<2, 4>>)
    /\ scene.model_shape = <<2, 4>>
    /\ Len(scene.params) = 1

\* 2 * b is within 1 of n: b is n / 2 rounded to an integer
HalfRounded(b, n) == 2 * b - n <= 1 /\ n - 2 * b <= 1

\* C15: with border_size None the border passed to make_model_params is,
\* on each axis, half the resolved model_shape rounded to an integer, for
\* odd and even sizes; a given border_size is passed on as it is.
C15_DefaultBorderIsHalfShape ==
    (SceneCalled /\ scene.pc # "raised") =>
        /\ scene.args.border_size.kind = "None" =>
               /\ HalfRounded(BorderPair(scene.border_size)[1],
                              scene.model_shape[1])
               /\ HalfRounded(BorderPair(scene.border_size)[2],
                              scene.model_shape[2])
        /\ scene.args.border_size.kind # "None" =>
               scene.border_size = scene.args.border_size

\* The same for odd sizes and given borders only (holds)
DefaultBorderIsHalfShape_Odd ==
    (SceneCalled /\ scene.pc # "raised") =>
        /\ scene.args.border_size.kind = "None" =>
               \A i \in 1..2 :
                   scene.model_shape[i] % 2 = 1 =>
                       HalfRounded(BorderPair(scene.border_size)[i],
                                   scene.model_shape[i])
        /\ scene.args.border_size.kind # "None" =>
               scene.border_size = scene.args.border_size

\* C16: at every point of the placement and in the returned table, every
\* two sources are at least min_separation apart and every source is
\* outside the border of the image (the border_size given, or the default
\* one); the candidate of a step is added only if it keeps both.
C16_SourcesSeparatedOutsideBorder ==
    (scene.pc \in {"placing", "returned"}) =>
        LET t  == scene.params
            b  == IF scene.args.border_size.kind = "None"
                  THEN BorderPair(scene.border_size)
                  ELSE BorderPair(scene.args.border_size)
            ny == scene.args.shape[1]
            nx == scene.args.shape[2]
            d  == scene.args.min_separation
        IN  /\ \A i, j \in 1..Len(t) :
                   i < j =>
                       (t[i].x - t[j].x) * (t[i].x - t[j].x)
                           + (t[i].y - t[j].y) * (t[i].y - t[j].y) >= d * d
            /\ \A i \in 1..Len(t) :
                   /\ b[2] <= t[i].x /\ t[i].x <= nx - 1 - b[2]
                   /\ b[1] <= t[i].y /\ t[i].y <= ny - 1 - b[1]

C16_Witness ==
    /\ scene.pc = "returned"
    /\ Len(scene.params) = 2
    /\ scene.args.min_separation = 3
    /\ scene.args.border_size = Scalar(0)
    /\ scene.rejected > 0

\* C17: once called with a resolvable model_shape, make_psf_model_image
\* returns; it draws at most MaxAttempts candidates and returns without
\* error a table of at most n_sources rows, one row per accepted
\* candidate.
C17_PlacementTerminates ==
    /\ (scene.pc = "placing") ~> (scene.pc = "returned")
    /\ [](scene.pc \in {"placing", "returned"} =>
             /\ scene.attempts <= MaxAttempts
             /\ scene.exc = "none"
             /\ Len(scene.params) <= scene.args.n_sources
             /\ Len(scene.params) = scene.attempts - scene.rejected)

C17_Witness ==
    /\ scene.pc = "returned"
    /\ scene.args.n_sources = 2
    /\ Len(scene.params) < 2
    /\ scene.attempts = MaxAttempts
    /\ scene.args.min_separation = 3
    /\ scene.args.border_size = PyNone

\* The names of a sequence of <<name, value>> pairs
Names(pairs) == {pairs[i][1] : i \in 1..Len(pairs)}

====
